---- MODULE Spec2Model ----
(***************************************************************************)
(* Model of the agricultural analytics code: AgriculturalDataManager       *)
(* (data_manager.py), AgriculturalAnalyzer (analyzer.py), and the two       *)
(* collaborators that share the manager's tables, AgriculturalDashboard     *)
(* (dashboard.py) and AgriculturalMap (map_visualization.py).               *)
(*                                                                         *)
(* A table (pandas DataFrame with the default RangeIndex) is a record      *)
(* [cols, rows]: the set of column names and the sequence of rows, each    *)
(* row a function from the column names to cells.  A numeric cell is NaN  *)
(* or an exact rational <<n, d>>; parcelle_id cells are strings.          *)
(***************************************************************************)
EXTENDS Integers, Sequences, FiniteSets, TLC

(***************************************************************************)
(* Bounds of the model.                                                    *)
(***************************************************************************)
MaxMonitoring == 2
MaxWeather == 2
MaxSoil == 2
MaxYield == 2
MaxSeries == 3
MaxLength == 6

(***************************************************************************)
(* Numeric cells.                                                          *)
(***************************************************************************)
NaN == <<>>

Abs(n) == IF n < 0 THEN -n ELSE n

RECURSIVE GCD(_, _)
GCD(a, b) == IF b = 0 THEN a ELSE GCD(b, a % b)

\* the rational n/d in lowest terms with a positive denominator
R(n, d) ==
    LET g == GCD(Abs(n), Abs(d))
        s == IF d < 0 THEN -1 ELSE 1
    IN  <<(s * n) \div g, (s * d) \div g>>

Num(n) == <<n, 1>>

RAdd(x, y) == R(x[1] * y[2] + y[1] * x[2], x[2] * y[2])
RSub(x, y) == R(x[1] * y[2] - y[1] * x[2], x[2] * y[2])
RMul(x, y) == R(x[1] * y[1], x[2] * y[2])
RDivInt(x, k) == R(x[1], x[2] * k)
RLess(x, y) == x[1] * y[2] < y[1] * x[2]
RMax(x, y) == IF RLess(x, y) THEN y ELSE x
RMin(x, y) == IF RLess(x, y) THEN x ELSE y

RECURSIVE SumSeq(_)
SumSeq(s) == IF s = <<>> THEN Num(0) ELSE RAdd(Head(s), SumSeq(Tail(s)))

RECURSIVE MaxSeq(_)
MaxSeq(s) == IF Len(s) = 1 THEN s[1] ELSE RMax(s[1], MaxSeq(Tail(s)))

NotNaN(x) == x # NaN

\* Series.mean() / Series.max(): NaN cells are skipped, NaN when none is left
SeriesMean(s) ==
    LET v == SelectSeq(s, NotNaN)
    IN  IF v = <<>> THEN NaN ELSE RDivInt(SumSeq(v), Len(v))

SeriesMax(s) ==
    LET v == SelectSeq(s, NotNaN)
    IN  IF v = <<>> THEN NaN ELSE MaxSeq(v)

(***************************************************************************)
(* Tables.                                                                 *)
(***************************************************************************)
StrCols == {"parcelle_id"}

IsNull(c, v) == c \notin StrCols /\ v = NaN

Table(cols, rows) == [cols |-> cols, rows |-> rows]

Column(t, c) == [i \in 1..Len(t.rows) |-> t.rows[i][c]]

RECURSIVE Flatten(_)
Flatten(ss) == IF ss = <<>> THEN <<>> ELSE Head(ss) \o Flatten(Tail(ss))

\* df[mask]
Filter(t, Test(_)) == Table(t.cols, SelectSeq(t.rows, Test))

\* df[[c1, c2, ...]]
Project(t, cs) ==
    Table(cs, [i \in 1..Len(t.rows) |-> [c \in cs |-> t.rows[i][c]]])

\* df[c] = values (in place when the column exists, appended otherwise)
SetColumn(t, c, vals) ==
    Table(t.cols \cup {c},
          [i \in 1..Len(t.rows) |->
              [k \in t.cols \cup {c} |-> IF k = c THEN vals[i] ELSE t.rows[i][k]]])

\* df.drop(cs, axis=1, errors='ignore')
DropColumns(t, cs) == Project(t, t.cols \ cs)

\* rows of r whose key cells equal those of the left row lr
Matches(r, keys, lr) ==
    LET Hit(rr) == \A k \in keys : rr[k] = lr[k]
    IN  SelectSeq(r.rows, Hit)

\* pd.merge(l, r, on=keys, how=how) for how in {"inner", "left"}: the left
\* order is kept, a left row is repeated once per matching right row, columns
\* common to both sides that are not keys get the suffixes _x and _y, and an
\* unmatched left row of a left merge carries NaN in the right columns.
Merge(l, r, keys, how) ==
    LET overlap == (l.cols \cap r.cols) \ keys
        LName(c) == IF c \in overlap THEN c \o "_x" ELSE c
        RName(c) == IF c \in overlap THEN c \o "_y" ELSE c
        rcols == r.cols \ keys
        cols == {LName(c) : c \in l.cols} \cup {RName(c) : c \in rcols}
        FromLeft(n) == \E c \in l.cols : LName(c) = n
        LCol(n) == CHOOSE c \in l.cols : LName(c) = n
        RCol(n) == CHOOSE c \in rcols : RName(c) = n
        Joined(lr, rr) ==
            IF overlap = {} THEN lr @@ [c \in rcols |-> rr[c]]
            ELSE [n \in cols |-> IF FromLeft(n) THEN lr[LCol(n)] ELSE rr[RCol(n)]]
        Unmatched(lr) ==
            IF overlap = {} THEN lr @@ [c \in rcols |-> NaN]
            ELSE [n \in cols |-> IF FromLeft(n) THEN lr[LCol(n)] ELSE NaN]
        For(lr) ==
            LET m == Matches(r, keys, lr)
            IN  IF m # <<>> THEN [j \in 1..Len(m) |-> Joined(lr, m[j])]
                ELSE IF how = "left" THEN <<Unmatched(lr)>>
                ELSE <<>>
    IN  Table(cols, Flatten([i \in 1..Len(l.rows) |-> For(l.rows[i])]))

\* pd.merge_asof(l, r, left_index=True, right_index=True,
\* direction="nearest") on two RangeIndex tables: left row number i (0-based)
\* is paired with the right row whose row number is nearest to i, which is
\* row i when it exists and the last right row otherwise; every left row is
\* kept, with NaN right cells when r is empty.
MergeAsofIndex(l, r) ==
    LET overlap == l.cols \cap r.cols
        LName(c) == IF c \in overlap THEN c \o "_x" ELSE c
        RName(c) == IF c \in overlap THEN c \o "_y" ELSE c
        cols == {LName(c) : c \in l.cols} \cup {RName(c) : c \in r.cols}
        FromLeft(n) == \E c \in l.cols : LName(c) = n
        LCol(n) == CHOOSE c \in l.cols : LName(c) = n
        RCol(n) == CHOOSE c \in r.cols : RName(c) = n
        m == Len(r.rows)
        Near(i) == IF i <= m THEN i ELSE m
        Row(i) ==
            [n \in cols |->
                IF FromLeft(n) THEN l.rows[i][LCol(n)]
                ELSE IF m = 0 THEN NaN
                ELSE r.rows[Near(i)][RCol(n)]]
    IN  Table(cols, [i \in 1..Len(l.rows) |-> Row(i)])

\* df.fillna(method="ffill"): a null cell takes the last non-null cell above
\* it in the same column, whatever row that is; with none above it stays null
Ffill(t) ==
    LET Fill(i, c) ==
            LET above == {j \in 1..(i - 1) : ~IsNull(c, t.rows[j][c])}
            IN  IF ~IsNull(c, t.rows[i][c]) THEN t.rows[i][c]
                ELSE IF above = {} THEN NaN
                ELSE t.rows[CHOOSE j \in above : \A k \in above : k <= j][c]
    IN  Table(t.cols, [i \in 1..Len(t.rows) |-> [c \in t.cols |-> Fill(i, c)]])

\* df.isnull().sum().sum()
MissingCount(t) ==
    Cardinality({<<i, c>> \in (1..Len(t.rows)) \X t.cols : IsNull(c, t.rows[i][c])})

(***************************************************************************)
(* The four CSV files.  Dates are month numbers; YearOf is date.dt.year.   *)
(***************************************************************************)
Parcels == {"P1", "P2"}
MonitoringDates == {11, 12}
WeatherDates == {12, 13}
YieldDates == {11, 12}
NdviValues == {R(1, 2)}
StressValues == {Num(2)}
TemperatureValues == {Num(20)}
\* <<rendement_estime, rendement_final>>: neither, the estimate only, both
YieldValues == {<<NaN, NaN>>, <<Num(3), NaN>>, <<Num(3), Num(5)>>, <<Num(3), Num(14)>>}

YearOf(d) == 2020 + (d \div 12)

Latitude(p) == IF p = "P1" THEN Num(34) ELSE Num(35)
Longitude(p) == IF p = "P1" THEN Num(-6) ELSE Num(-5)
\* one soil profile per parcel, the second without any retention capacity
Capacity(p) == IF p = "P1" THEN Num(4) ELSE Num(0)

BSeq(S, n) == UNION {[1..k -> S] : k \in 0..n}

MonitoringCols == {"parcelle_id", "date", "ndvi", "stress_hydrique", "latitude", "longitude"}
WeatherCols == {"date", "temperature"}
SoilCols == {"parcelle_id", "capacite_retention_eau"}
YieldCsvCols == {"parcelle_id", "date", "rendement_estime", "rendement_final"}

MonitoringRow(p, d, n, s) ==
    [parcelle_id |-> p, date |-> Num(d), ndvi |-> n, stress_hydrique |-> s,
     latitude |-> Latitude(p), longitude |-> Longitude(p)]

WeatherRow(d, t) == [date |-> Num(d), temperature |-> t]

SoilRow(p) == [parcelle_id |-> p, capacite_retention_eau |-> Capacity(p)]

YieldRow(p, d, v) ==
    [parcelle_id |-> p, date |-> Num(d), rendement_estime |-> v[1], rendement_final |-> v[2]]

MonitoringRows ==
    {MonitoringRow(p, d, n, s) :
        <<p, d, n, s>> \in Parcels \X MonitoringDates \X NdviValues \X StressValues}

WeatherRows == {WeatherRow(d, t) : <<d, t>> \in WeatherDates \X TemperatureValues}

SoilRows == {SoilRow(p) : p \in Parcels}

YieldRows == {YieldRow(p, d, v) : <<p, d, v>> \in Parcels \X YieldDates \X YieldValues}

\* a complete data set: both parcels monitored on a date that has weather,
\* soil for both, one final yield each
RefMonitoring ==
    <<MonitoringRow("P1", 12, R(1, 2), Num(2)), MonitoringRow("P2", 12, R(1, 2), Num(2))>>
RefWeather == <<WeatherRow(12, Num(20)), WeatherRow(13, Num(20))>>
RefSoil == <<SoilRow("P1"), SoilRow("P2")>>
RefYield ==
    <<YieldRow("P1", 12, <<Num(3), Num(5)>>), YieldRow("P2", 12, <<Num(3), Num(14)>>)>>

\* every monitoring, weather and soil file around the reference yield file
FusionFiles ==
    [monitoring : BSeq(MonitoringRows, MaxMonitoring),
     weather : BSeq(WeatherRows, MaxWeather),
     soil : BSeq(SoilRows, MaxSoil),
     yield : {RefYield}]

\* every yield file around the reference monitoring, weather and soil files
YieldFiles ==
    [monitoring : {RefMonitoring},
     weather : {RefWeather},
     soil : {RefSoil},
     yield : BSeq(YieldRows, MaxYield)]

\* every longer yield file of one parcel, long enough to be decomposed
SeriesRows == {r \in YieldRows : r.parcelle_id = "P1"}

SeriesFiles ==
    [monitoring : {RefMonitoring},
     weather : {RefWeather},
     soil : {RefSoil},
     yield : BSeq(SeriesRows, MaxSeries)]

\* monthly records of one parcel, the final yield rising by 1 a month:
\* thirteen of them, and twenty-four (two periods of twelve)
LinearSeries == [i \in 1..13 |-> Num(i)]

LongLinearSeries == [i \in 1..24 |-> Num(i)]

LinearYield(series) ==
    [i \in 1..Len(series) |-> YieldRow("P1", i, <<NaN, series[i]>>)]

LinearFiles ==
    [monitoring : {RefMonitoring},
     weather : {RefWeather},
     soil : {RefSoil},
     yield : {LinearYield(LinearSeries), LinearYield(LongLinearSeries)}]

Files == FusionFiles \cup YieldFiles \cup SeriesFiles \cup LinearFiles

(***************************************************************************)
(* AgriculturalDataManager                                                 *)
(***************************************************************************)
NoTable == Table({}, <<>>)

\* load_data: the tables read from the files, with 'annee' and 'rendement'
\* added to the yield history
load_data(f) ==
    [monitoring |-> Table(MonitoringCols, f.monitoring),
     weather |-> Table(WeatherCols, f.weather),
     soil |-> Table(SoilCols, f.soil),
     yield |->
        LET csv == Table(YieldCsvCols, f.yield)
            annee == [i \in 1..Len(f.yield) |-> Num(YearOf(f.yield[i].date[1]))]
            rendement == Column(csv, "rendement_final")
        IN  SetColumn(SetColumn(csv, "annee", annee), "rendement", rendement)]

\* prepare_features: monitoring joined to weather by nearest row number, then
\* to soil on parcelle_id, then forward-filled when anything is missing
prepare_features(monitoring, weather, soil) ==
    LET asof == MergeAsofIndex(monitoring, weather)
        data == Merge(asof, soil, {"parcelle_id"}, "left")
    IN  IF MissingCount(data) > 0 THEN Ffill(data) ELSE data

\* the mean of the whole column on every row, parcels not told apart
GroupMeanOfAllRows(t, c) ==
    [i \in 1..Len(t.rows) |-> SeriesMean(Column(t, c))]

\* groupby("parcelle_id")[c].transform("mean")
GroupMean(t, c) ==
    [i \in 1..Len(t.rows) |->
        LET SameParcel(r) == r.parcelle_id = t.rows[i].parcelle_id
        IN  SeriesMean(Column(Filter(t, SameParcel), c))]

\* _enrich_with_yield_history
enrich_with_yield_history(data, yield) ==
    LET enriched == Merge(data, Project(yield, {"parcelle_id", "annee", "rendement"}),
                          {"parcelle_id"}, "left")
    IN  SetColumn(enriched, "rendement_moyen", GroupMean(enriched, "rendement"))

EpsDenominator == 1000000
Eps == R(1, EpsDenominator)

\* x / (y + 1e-6), NaN when an operand is
GuardedQuotient(x, y) ==
    IF x = NaN \/ y = NaN THEN NaN
    ELSE LET den == RAdd(y, Eps)
         IN  R(x[1] * den[2], x[2] * den[1])

\* 0.5 * risque_hydrique + 0.3 * (1 - ndvi)
HydricAndVegetationTerm(rh, ndvi) ==
    IF rh = NaN \/ ndvi = NaN THEN NaN
    ELSE RAdd(RMul(R(1, 2), rh), RMul(R(3, 10), RSub(Num(1), ndvi)))

\* 0.2 * (1 - rendement_moyen / (max + 1e-6))
YieldTerm(rm, max) ==
    LET q == GuardedQuotient(rm, max)
    IN  IF q = NaN THEN NaN ELSE RDivInt(RSub(Num(1), q), 5)

\* the value a + b, kept as the pair of its two exact terms: the denominator
\* of their sum (about 1e13) is beyond TLC's 32-bit integers
SumOf(a, b) == IF a = NaN \/ b = NaN THEN NaN ELSE <<a, b>>

\* the table calculate_risk_metrics leaves in its argument: both risk columns
\* are assigned into the DataFrame that was passed in
risk_columns(data) ==
    LET n == Len(data.rows)
        rh == [i \in 1..n |->
                  GuardedQuotient(data.rows[i].stress_hydrique,
                                  data.rows[i].capacite_retention_eau)]
        max == SeriesMax(Column(data, "rendement_moyen"))
        rg == [i \in 1..n |->
                  SumOf(HydricAndVegetationTerm(rh[i], data.rows[i].ndvi),
                        YieldTerm(data.rows[i].rendement_moyen, max))]
    IN  SetColumn(SetColumn(data, "risque_hydrique", rh), "risque_global", rg)

\* the value calculate_risk_metrics returns
calculate_risk_metrics(data) ==
    Project(risk_columns(data), {"parcelle_id", "risque_hydrique", "risque_global"})

\* Series.interpolate(method="linear", limit_direction="both"): a gap between
\* two known values is filled on the straight line between them (by
\* position), a gap before the first or after the last known value takes
\* that value, and a series without any known value is left as it is
Interpolate(s) ==
    LET known == {j \in 1..Len(s) : s[j] # NaN}
        Prev(i) == CHOOSE j \in known : j < i /\ \A k \in known : k < i => k <= j
        Next(i) == CHOOSE j \in known : j > i /\ \A k \in known : k > i => j <= k
        At(i) ==
            IF s[i] # NaN THEN s[i]
            ELSE IF known = {} THEN NaN
            ELSE IF \A j \in known : j > i THEN s[Next(i)]
            ELSE IF \A j \in known : j < i THEN s[Prev(i)]
            ELSE RAdd(s[Prev(i)],
                      RMul(RSub(s[Next(i)], s[Prev(i)]),
                           R(i - Prev(i), Next(i) - Prev(i))))
    IN  [i \in 1..Len(s) |-> At(i)]

\* Series.fillna(value)
FillNa(s, v) == [i \in 1..Len(s) |-> IF s[i] = NaN THEN v ELSE s[i]]

Period == 12

\* a history of two records taken as long enough
NotEnoughDataBelowTwo(history) == Len(history.rows) < 2

\* len(history) < 3
NotEnoughData(history) == Len(history.rows) < 3

\* the trend of seasonal_decompose(model="additive", period=12): the centred
\* 2x12 moving average, defined from the 7th value to the 7th from the end
\* (trend.dropna())
ValidTrend(x) ==
    [i \in 1..(Len(x) - Period) |->
        LET inner == SumSeq([k \in 1..(Period - 1) |-> x[i + k]])
            ends == RDivInt(RAdd(x[i], x[i + Period]), 2)
        IN  RDivInt(RAdd(inner, ends), Period)]

\* np.polyfit(range(n), y, 1)[0]: the least-squares slope over x = 0..n-1;
\* for a single point the minimum-norm solution has slope 0
PolyfitSlope(y) ==
    LET n == Len(y)
        Sx == (n * (n - 1)) \div 2
        Sxx == ((n - 1) * n * (2 * n - 1)) \div 6
        Sy == SumSeq(y)
        Sxy == SumSeq([i \in 1..n |-> RMul(Num(i - 1), y[i])])
    IN  IF n = 1 THEN Num(0)
        ELSE RDivInt(RSub(RMul(Num(n), Sxy), RMul(Num(Sx), Sy)), n * Sxx - Sx * Sx)

\* analyze_yield_patterns: None for a parcel with fewer than 3 records;
\* otherwise the parcel's records in table order, 'rendement' imputed when any
\* is missing, are handed to seasonal_decompose(period=12), which raises
\* ValueError on a series that still has a missing value or is shorter than
\* two periods; of the result, the valid trend and its slope are kept
analyze_yield_patterns(yield, parcelle_id) ==
    LET OfParcel(r) == r.parcelle_id = parcelle_id
        history == Filter(yield, OfParcel)
        raw == Column(history, "rendement")
        interpolated == Interpolate(raw)
        imputed ==
            IF \E i \in 1..Len(raw) : raw[i] = NaN
            THEN FillNa(interpolated, SeriesMean(interpolated))
            ELSE raw
        raises == \/ \E i \in 1..Len(imputed) : imputed[i] = NaN
                  \/ Len(imputed) < 2 * Period
    IN  IF Len(history.rows) = 0 \/ NotEnoughData(history)
        THEN [status |-> "None", history |-> history, dates |-> <<>>, series |-> <<>>,
              trend |-> <<>>, slope |-> NaN]
        ELSE IF raises
        THEN [status |-> "ValueError", history |-> history,
              dates |-> Column(history, "date"), series |-> imputed,
              trend |-> <<>>, slope |-> NaN]
        ELSE [status |-> "decomposed", history |-> history,
              dates |-> Column(history, "date"), series |-> imputed,
              trend |-> ValidTrend(imputed), slope |-> PolyfitSlope(ValidTrend(imputed))]

(***************************************************************************)
(* AgriculturalAnalyzer                                                    *)
(***************************************************************************)
\* Series.fillna(other): a missing cell takes the cell of other at the same row
FillNaFrom(s, other) == [i \in 1..Len(s) |-> IF s[i] = NaN THEN other[i] ELSE s[i]]

\* analyze_yield_factors, lines 26-44: the parcel's monitoring rows joined to
\* weather on equal dates, to the parcel's soil rows and to the yield history
\* on (parcelle_id, date)
yield_factors_merge(monitoring, weather, soil, yield, parcelle_id) ==
    LET OfParcel(r) == r.parcelle_id = parcelle_id
        parcelle_data == Filter(monitoring, OfParcel)
        soil_data == Filter(soil, OfParcel)
        with_weather == Merge(parcelle_data, weather, {"date"}, "inner")
        with_soil == Merge(with_weather, soil_data, {"parcelle_id"}, "left")
    IN  Merge(with_soil,
              Project(yield, {"parcelle_id", "date", "rendement_estime", "rendement_final"}),
              {"parcelle_id", "date"}, "left")

\* analyze_yield_factors, lines 46-50: 'rendement' resolved from the final
\* value with the estimate as fallback, rows without one dropped
yield_factors_table(monitoring, weather, soil, yield, parcelle_id) ==
    LET merged == yield_factors_merge(monitoring, weather, soil, yield, parcelle_id)
        resolved == SetColumn(merged, "rendement",
                              FillNaFrom(Column(merged, "rendement_final"),
                                         Column(merged, "rendement_estime")))
        HasYield(r) == r.rendement # NaN
    IN  Filter(resolved, HasYield)

\* the check of line 64 left out
NeverEmpty(t) == FALSE

\* DataFrame.empty / Series.empty
IsEmpty(t) == t.cols = {} \/ Len(t.rows) = 0

\* the order of the columns of X: those of the monitoring table, then the
\* weather, soil and yield columns in the order of the merges
ColumnOrder ==
    <<"ndvi", "stress_hydrique", "latitude", "longitude", "risk_score", "temperature",
      "capacite_retention_eau", "rendement_estime", "rendement_final">>

\* pd.get_dummies(X, columns=non_numeric_cols, drop_first=True): X has no
\* object column left (parcelle_id, the only one, was dropped at line 60), so
\* nothing is encoded; the columns are returned in their order
get_dummies(X) ==
    LET InX(c) == c \in X.cols
    IN  SelectSeq(ColumnOrder, InX)

\* what self.model.fit(X, y) may do: refuse an X that holds a missing value
\* or accept it (the library's builds differ), and, once fitted, report one
\* of two forests, both spreading the importance unevenly over the columns,
\* with ties and not in decreasing order
FitOutcomes ==
    {[refuses_nan |-> TRUE, forest |-> 1],
     [refuses_nan |-> FALSE, forest |-> 1],
     [refuses_nan |-> FALSE, forest |-> 2]}

\* pd.Series(self.model.feature_importances_, index=X.columns): pairs
\* <<column, importance>> in column order, the importances summing to 1
\* unless all are 0
feature_importances(columns, forest) ==
    LET Weight(i) == (i * forest) % 3
        total == SumSeq([i \in 1..Len(columns) |-> Num(Weight(i))])[1]
    IN  [i \in 1..Len(columns) |->
            <<columns[i], IF total = 0 THEN Num(0) ELSE R(Weight(i), total)>>]

\* the series left in column order
Unsorted(series) == series

\* Series.sort_values(ascending=False): by insertion, larger values first
RECURSIVE SortDescending(_)
SortDescending(series) ==
    IF series = <<>> THEN <<>>
    ELSE LET rest == SortDescending(Tail(series))
             Ahead(e) == ~RLess(e[2], Head(series)[2])
             Behind(e) == RLess(e[2], Head(series)[2])
         IN  SelectSeq(rest, Ahead) \o <<Head(series)>> \o SelectSeq(rest, Behind)

\* analyze_yield_factors, lines 26-61: the fused table, the feature matrix X
\* and the target y
yield_factors_features(monitoring, weather, soil, yield, parcelle_id) ==
    LET combined_data == yield_factors_table(monitoring, weather, soil, yield, parcelle_id)
    IN  [combined_data |-> combined_data,
         X |-> DropColumns(combined_data, {"rendement", "parcelle_id", "date"}),
         y |-> Project(combined_data, {"rendement"})]

\* analyze_yield_factors, lines 63-78, on the features of lines 26-61: the
\* ValueError raised when X or y is empty, the fit and the sorted importances
analyze_yield_factors(features, fit) ==
    LET status ==
            IF IsEmpty(features.X) \/ IsEmpty(features.y) THEN "ValueError"
            ELSE IF fit.refuses_nan /\ MissingCount(features.X) > 0 THEN "fit ValueError"
            ELSE "fitted"
    IN  [status |-> status,
         combined_data |-> features.combined_data,
         X |-> features.X,
         feature_importance |->
            IF status = "fitted"
            THEN SortDescending(feature_importances(get_dummies(features.X), fit.forest))
            ELSE <<>>]

\* the columns select_dtypes(include=[np.number]) keeps: neither the text
\* column parcelle_id nor the datetime columns
NumericCols(t) == t.cols \ {"parcelle_id", "date", "date_x", "date_y"}

\* _calculate_yield_correlations up to the table whose correlations are taken
calculate_yield_correlations(yield_data, weather_data, soil_data) ==
    LET with_weather == Merge(yield_data, weather_data, {"date"}, "inner")
        combined_data == Merge(with_weather, soil_data, {"parcelle_id"}, "left")
        numeric == Project(combined_data, NumericCols(combined_data))
    IN  [status |-> IF "rendement" \in numeric.cols THEN "ok" ELSE "KeyError",
         combined_data |-> numeric]

\* yield_series[i] with Python's 0-based index
At(yield_series, i) == yield_series[i + 1]

\* np.std(x) ** 2, the population variance: mean of squares less squared mean
Variance(x) ==
    LET squares == [i \in 1..Len(x) |-> RMul(x[i], x[i])]
        mean == RDivInt(SumSeq(x), Len(x))
    IN  RSub(RDivInt(SumSeq(squares), Len(x)), RMul(mean, mean))

RECURSIVE ISqrtIn(_, _, _)
ISqrtIn(n, lo, hi) ==
    IF lo = hi THEN lo
    ELSE LET mid == (lo + hi + 1) \div 2
         IN  IF mid * mid <= n THEN ISqrtIn(n, mid, hi) ELSE ISqrtIn(n, lo, mid - 1)

\* np.std(x), rounded down to three decimals (exact for a variance of 0)
Std(x) ==
    LET v == Variance(x)
    IN  R(ISqrtIn((v[1] * 1000000) \div v[2], 0, 30000), 1000)

\* the indices one short of range(1, len(yield_series) - 1)
ScanIndicesShort(n) == IF n < 4 THEN <<>> ELSE [k \in 1..(n - 3) |-> k]

\* range(1, len(yield_series) - 1): 1, ..., len - 2
ScanIndices(n) == IF n < 3 THEN <<>> ELSE [k \in 1..(n - 2) |-> k]

\* _detect_yield_breakpoints: |d| > std is decided as d * d > variance
detect_yield_breakpoints(yield_series) ==
    LET Jump(i) ==
            LET d == RSub(At(yield_series, i), At(yield_series, i - 1))
            IN  RLess(Variance(yield_series), RMul(d, d))
    IN  SelectSeq(ScanIndices(Len(yield_series)), Jump)

StabilityEps == R(1, 100000)

\* trend / variability without the guard: 0 / 0 is nan, x / 0 is not finite
UnguardedRatio(trend, variability) ==
    IF variability[1] = 0 THEN NaN
    ELSE R(trend[1] * variability[2], trend[2] * variability[1])

\* trend[0] / (variability + 1e-5)
StabilityRatio(trend, variability) ==
    LET den == RAdd(variability, StabilityEps)
    IN  IF den[1] = 0 THEN NaN ELSE R(trend[1] * den[2], trend[2] * den[1])

\* _calculate_stability_index: np.polyfit raises TypeError on an empty series
calculate_stability_index(yield_series) ==
    IF Len(yield_series) = 0
    THEN [status |-> "TypeError"]
    ELSE [status |-> "returned",
          trend |-> PolyfitSlope(yield_series),
          stability_index |-> StabilityRatio(PolyfitSlope(yield_series), Std(yield_series))]

LimitingThreshold == R(2, 10)

\* correlations[correlations < 0.2]: a coefficient that is not below the
\* threshold, or is NaN, is masked to NaN; parcelle_data is not read
identify_limiting_factors(parcelle_data, correlations) ==
    [f \in DOMAIN correlations |->
        IF correlations[f] # NaN /\ RLess(correlations[f], LimitingThreshold)
        THEN correlations[f] ELSE NaN]

(***************************************************************************)
(* AgriculturalDashboard and AgriculturalMap                               *)
(***************************************************************************)
\* Series.fillna(method='ffill') and Series.fillna(method='bfill')
FfillSeries(s) ==
    [i \in 1..Len(s) |->
        LET above == {j \in 1..i : s[j] # NaN}
        IN  IF above = {} THEN NaN
            ELSE s[CHOOSE j \in above : \A k \in above : k <= j]]

BfillSeries(s) ==
    [i \in 1..Len(s) |->
        LET below == {j \in i..Len(s) : s[j] # NaN}
        IN  IF below = {} THEN NaN
            ELSE s[CHOOSE j \in below : \A k \in below : j <= k]]

\* create_data_sources, lines 31-36: what the assignments leave in
\* data_manager.yield_history (yield_history is that same DataFrame)
create_data_sources(yield) ==
    SetColumn(yield, "rendement", FfillSeries(BfillSeries(Column(yield, "rendement"))))

\* validate_columns: every required column the dataset lacks is added to it,
\* filled with 0.0
validate_columns(dataset, required_columns) ==
    LET cols == dataset.cols \cup required_columns
    IN  Table(cols,
              [i \in 1..Len(dataset.rows) |->
                  [c \in cols |-> IF c \in dataset.cols THEN dataset.rows[i][c]
                                  ELSE Num(0)]])

YieldColormapMax == 12

\* lambda x: max(0, min(x, 12)) if pd.notnull(x) else 0
ClampYield(x) ==
    IF x = NaN THEN Num(0) ELSE RMax(Num(0), RMin(x, Num(YieldColormapMax)))

\* add_yield_history_layer: what it leaves in data_manager.yield_history
add_yield_history_layer(yield) ==
    LET validated == validate_columns(yield, {"latitude", "longitude", "rendement"})
        col == Column(validated, "rendement")
    IN  SetColumn(validated, "rendement", [i \in 1..Len(col) |-> ClampYield(col[i])])

(***************************************************************************)
(* State: the files on disk, the data manager's four tables, and the last  *)
(* call with the tables its caller holds.                                  *)
(***************************************************************************)
VARIABLES files, loaded, monitoring_data, weather_data, soil_data, yield_history, call

vars == <<files, loaded, monitoring_data, weather_data, soil_data, yield_history, call>>

tables == <<monitoring_data, weather_data, soil_data, yield_history>>

\* AgriculturalDataManager.__init__: no table yet
Init ==
    /\ files \in Files
    /\ loaded = FALSE
    /\ monitoring_data = NoTable
    /\ weather_data = NoTable
    /\ soil_data = NoTable
    /\ yield_history = NoTable
    /\ call = [op |-> "__init__"]

LoadData ==
    LET t == load_data(files)
    IN  /\ loaded' = TRUE
        /\ monitoring_data' = t.monitoring
        /\ weather_data' = t.weather
        /\ soil_data' = t.soil
        /\ yield_history' = t.yield
        /\ call' = [op |-> "load_data"]
        /\ UNCHANGED files

\* features = data_manager.prepare_features(); sort_index on the RangeIndex
\* of a freshly read table reorders nothing
PrepareFeatures ==
    /\ loaded
    /\ call' = [op |-> "prepare_features", status |-> "returned",
                held |-> prepare_features(monitoring_data, weather_data, soil_data)]
    /\ UNCHANGED <<files, loaded, tables>>

\* enriched_features = data_manager._enrich_with_yield_history(features)
EnrichWithYieldHistory ==
    /\ loaded
    /\ call.op = "prepare_features"
    /\ call' = [op |-> "_enrich_with_yield_history", status |-> "returned",
                arg |-> call.held,
                held |-> enrich_with_yield_history(call.held, yield_history)]
    /\ UNCHANGED <<files, loaded, tables>>

\* risk_metrics = data_manager.calculate_risk_metrics(enriched_features):
\* arg is the table as it was passed, held the same DataFrame after the call
CalculateRiskMetrics ==
    /\ loaded
    /\ call.op = "_enrich_with_yield_history"
    /\ call' = [op |-> "calculate_risk_metrics", status |-> "returned",
                arg |-> call.held,
                held |-> risk_columns(call.held),
                out |-> calculate_risk_metrics(call.held)]
    /\ UNCHANGED <<files, loaded, tables>>

AnalyzeYieldPatterns(p) ==
    /\ loaded
    /\ call' = [op |-> "analyze_yield_patterns", parcelle_id |-> p,
                out |-> analyze_yield_patterns(yield_history, p)]
    /\ UNCHANGED <<files, loaded, tables>>

AnalyzeYieldFactors(p) ==
    /\ loaded
    /\ LET features == yield_factors_features(monitoring_data, weather_data, soil_data,
                                              yield_history, p)
       IN  \E fit \in FitOutcomes :
               call' = [op |-> "analyze_yield_factors", parcelle_id |-> p,
                        out |-> analyze_yield_factors(features, fit)]
    /\ UNCHANGED <<files, loaded, tables>>

\* analyzer._calculate_yield_correlations(data_manager.yield_history,
\*     data_manager.weather_data, data_manager.soil_data)
CalculateYieldCorrelations ==
    /\ loaded
    /\ call' = [op |-> "_calculate_yield_correlations",
                out |-> calculate_yield_correlations(yield_history, weather_data, soil_data)]
    /\ UNCHANGED <<files, loaded, tables>>

\* AgriculturalDashboard(data_manager): __init__ runs create_data_sources
CreateDataSources ==
    /\ loaded
    /\ yield_history' = create_data_sources(yield_history)
    /\ call' = [op |-> "create_data_sources"]
    /\ UNCHANGED <<files, loaded, monitoring_data, weather_data, soil_data>>

CreateBaseMap ==
    /\ loaded
    /\ monitoring_data' = validate_columns(monitoring_data, {"latitude", "longitude"})
    /\ call' = [op |-> "create_base_map"]
    /\ UNCHANGED <<files, loaded, weather_data, soil_data, yield_history>>

AddYieldHistoryLayer ==
    /\ loaded
    /\ yield_history' = add_yield_history_layer(yield_history)
    /\ call' = [op |-> "add_yield_history_layer"]
    /\ UNCHANGED <<files, loaded, monitoring_data, weather_data, soil_data>>

AddCurrentNdviLayer ==
    /\ loaded
    /\ monitoring_data' =
           validate_columns(monitoring_data, {"latitude", "longitude", "ndvi"})
    /\ call' = [op |-> "add_current_ndvi_layer"]
    /\ UNCHANGED <<files, loaded, weather_data, soil_data, yield_history>>

AddRiskHeatmap ==
    /\ loaded
    /\ monitoring_data' =
           validate_columns(monitoring_data, {"latitude", "longitude", "risk_score"})
    /\ call' = [op |-> "add_risk_heatmap"]
    /\ UNCHANGED <<files, loaded, weather_data, soil_data, yield_history>>

Next ==
    \/ LoadData
    \/ PrepareFeatures
    \/ EnrichWithYieldHistory
    \/ CalculateRiskMetrics
    \/ \E p \in Parcels : AnalyzeYieldPatterns(p)
    \/ \E p \in Parcels : AnalyzeYieldFactors(p)
    \/ CalculateYieldCorrelations
    \/ CreateDataSources
    \/ CreateBaseMap
    \/ AddYieldHistoryLayer
    \/ AddCurrentNdviLayer
    \/ AddRiskHeatmap

Spec == Init /\ [][Next]_vars

(***************************************************************************)
(* The analyzer's functions of a yield series and of a table of            *)
(* correlations, applied to arguments of their own.                        *)
(***************************************************************************)
SeriesValues == {Num(5), Num(9)}

YieldSeriesInputs == BSeq(SeriesValues, MaxLength) \cup {LinearSeries}

Factors == {"temperature", "capacite_retention_eau"}

CorrelationValues == {NaN, R(-9, 10), R(-1, 10), R(1, 10), R(2, 10), R(9, 10)}

CorrelationInputs == [Factors -> CorrelationValues]

AnalyzerInit ==
    /\ files = [monitoring |-> RefMonitoring, weather |-> RefWeather,
                soil |-> RefSoil, yield |-> RefYield]
    /\ loaded = FALSE
    /\ monitoring_data = NoTable
    /\ weather_data = NoTable
    /\ soil_data = NoTable
    /\ yield_history = NoTable
    /\ call \in {[op |-> "yield_series", yield_series |-> y] : y \in YieldSeriesInputs}
                \cup {[op |-> "correlations", correlations |-> c] : c \in CorrelationInputs}

DetectYieldBreakpoints ==
    /\ "yield_series" \in DOMAIN call
    /\ call' = [op |-> "_detect_yield_breakpoints", yield_series |-> call.yield_series,
                out |-> detect_yield_breakpoints(call.yield_series)]
    /\ UNCHANGED <<files, loaded, tables>>

CalculateStabilityIndex ==
    /\ "yield_series" \in DOMAIN call
    /\ call' = [op |-> "_calculate_stability_index", yield_series |-> call.yield_series,
                out |-> calculate_stability_index(call.yield_series)]
    /\ UNCHANGED <<files, loaded, tables>>

IdentifyLimitingFactors ==
    /\ "correlations" \in DOMAIN call
    /\ call' = [op |-> "_identify_limiting_factors", correlations |-> call.correlations,
                out |-> identify_limiting_factors(monitoring_data, call.correlations)]
    /\ UNCHANGED <<files, loaded, tables>>

AnalyzerNext ==
    \/ DetectYieldBreakpoints
    \/ CalculateStabilityIndex
    \/ IdentifyLimitingFactors

AnalyzerSpec == AnalyzerInit /\ [][AnalyzerNext]_vars

(***************************************************************************)
(* Properties                                                              *)
(***************************************************************************)
Rows(t) == {t.rows[i] : i \in 1..Len(t.rows)}

\* the yield of a record: the final value, the estimate when it is missing
Resolved(final, estime) == IF final # NaN THEN final ELSE estime

\* C1: in every row of the table fused by analyze_yield_factors, and in every
\* record of the yield series analyze_yield_patterns imputes, rendement is
\* rendement_final when that is present and rendement_estime otherwise.
C1_RendementIsFinalElseEstimate ==
    /\ call.op = "analyze_yield_factors" =>
           \A r \in Rows(call.out.combined_data) :
               r.rendement = Resolved(r.rendement_final, r.rendement_estime)
    /\ (call.op = "analyze_yield_patterns" /\ call.out.status # "None") =>
           \A r \in Rows(call.out.history) :
               r.rendement = Resolved(r.rendement_final, r.rendement_estime)

\* the resolved yields the files hold for parcel p
FileYields(p) ==
    {Resolved(files.yield[i].rendement_final, files.yield[i].rendement_estime) :
        i \in {j \in 1..Len(files.yield) : files.yield[j].parcelle_id = p}}

\* C2: every row of a fused table (the one analyze_yield_factors builds, the
\* one prepare_features followed by _enrich_with_yield_history returns) has a
\* non-null rendement, and that rendement is the yield of one of the parcel's
\* records, not a placeholder.
C2_FusedRowsHaveRendement ==
    /\ call.op = "analyze_yield_factors" =>
           \A r \in Rows(call.out.combined_data) :
               r.rendement # NaN /\ r.rendement \in FileYields(r.parcelle_id)
    /\ call.op = "_enrich_with_yield_history" =>
           \A r \in Rows(call.held) :
               r.rendement # NaN /\ r.rendement \in FileYields(r.parcelle_id)

Distance(a, b) == Abs(a[1] - b[1])

\* w is a weather date nearest to date d
NearestWeatherDate(w, d) ==
    /\ \E x \in Rows(weather_data) : x.date = w
    /\ \A x \in Rows(weather_data) : Distance(w, d) <= Distance(x.date, d)

\* C3: every monitoring observation is in the fused table, paired with the
\* weather record nearest to it in date: in the table of prepare_features,
\* and, for the observations of the parcel that have a yield, in the table of
\* analyze_yield_factors.
C3_NearestDateWeather ==
    /\ (call.op = "prepare_features" /\ Len(weather_data.rows) > 0) =>
           \A m \in Rows(monitoring_data) :
               \E r \in Rows(call.held) :
                   /\ r.parcelle_id = m.parcelle_id
                   /\ r.date_x = m.date
                   /\ NearestWeatherDate(r.date_y, m.date)
    /\ (call.op = "analyze_yield_factors" /\ Len(weather_data.rows) > 0) =>
           \A m \in Rows(monitoring_data) :
               (/\ m.parcelle_id = call.parcelle_id
                /\ \E y \in Rows(yield_history) :
                       /\ y.parcelle_id = m.parcelle_id
                       /\ y.date = m.date
                       /\ Resolved(y.rendement_final, y.rendement_estime) # NaN)
               => \E r \in Rows(call.out.combined_data) : r.date = m.date

\* no two rows of t agree on parcelle_id and on the date column
OneRowPerKey(t, date) ==
    \A i, j \in 1..Len(t.rows) :
        (t.rows[i].parcelle_id = t.rows[j].parcelle_id /\ t.rows[i][date] = t.rows[j][date])
        => i = j

\* at most one row of t per parcel
OneRowPerParcel(t) ==
    \A i, j \in 1..Len(t.rows) : t.rows[i].parcelle_id = t.rows[j].parcelle_id => i = j

\* at most one row of t per date
OneRowPerDate(t) ==
    \A i, j \in 1..Len(t.rows) : t.rows[i].date = t.rows[j].date => i = j

\* the source tables are keyed as the data model says: monitoring and yield
\* history by (parcel, date), weather by date, soil by parcel
SourcesAreKeyed ==
    /\ OneRowPerKey(monitoring_data, "date")
    /\ OneRowPerKey(yield_history, "date")
    /\ OneRowPerDate(weather_data)
    /\ OneRowPerParcel(soil_data)

\* C4: with the source tables keyed as the data model says, every fused table
\* has at most one row per (parcel, date), whatever the number of yield
\* records of a parcel.
C4_OneRowPerParcelDate ==
    SourcesAreKeyed =>
        /\ call.op = "prepare_features" => OneRowPerKey(call.held, "date_x")
        /\ call.op = "_enrich_with_yield_history" => OneRowPerKey(call.held, "date_x")
        /\ call.op = "analyze_yield_factors" => OneRowPerKey(call.out.combined_data, "date")

RowsOf(t, p) == {i \in 1..Len(t.rows) : t.rows[i].parcelle_id = p}

\* C5: in the table prepare_features returns, a parcel without soil record has
\* as many rows as monitoring observations, each with the soil field missing.
C5_MissingSoilStaysMissing ==
    call.op = "prepare_features" =>
        \A p \in Parcels :
            RowsOf(soil_data, p) = {} =>
                /\ Cardinality(RowsOf(call.held, p)) = Cardinality(RowsOf(monitoring_data, p))
                /\ \A i \in RowsOf(call.held, p) :
                       call.held.rows[i].capacite_retention_eau = NaN

\* C6: fusion never returns to its caller a table without rows or without any
\* resolved rendement: prepare_features returns rows, the enriched table has
\* a rendement somewhere, and analyze_yield_factors fits only on rows.
C6_EmptyFusionIsAnError ==
    /\ (call.op = "prepare_features" /\ call.status = "returned") =>
           Len(call.held.rows) > 0
    /\ (call.op = "_enrich_with_yield_history" /\ call.status = "returned") =>
           \E r \in Rows(call.held) : r.rendement # NaN
    /\ (call.op = "analyze_yield_factors" /\ call.out.status = "fitted") =>
           \E r \in Rows(call.out.combined_data) : r.rendement # NaN

\* C7: after any sequence of operations the four tables of the data manager
\* are the tables load_data produced.
C7_TablesAreReadOnly ==
    loaded =>
        LET t == load_data(files)
        IN  /\ monitoring_data = t.monitoring
            /\ weather_data = t.weather
            /\ soil_data = t.soil
            /\ yield_history = t.yield

\* the risk scores of the tables as loaded
LoadedRiskMetrics ==
    LET t == load_data(files)
    IN  calculate_risk_metrics(
            enrich_with_yield_history(
                prepare_features(t.monitoring, t.weather, t.soil), t.yield))

\* C8: analyze_yield_patterns(p) and the risk scores are those of the tables
\* as loaded, whatever ran between the load and the call.
C8_ResultsIgnoreCallHistory ==
    /\ call.op = "analyze_yield_patterns" =>
           LET fresh == analyze_yield_patterns(load_data(files).yield, call.parcelle_id)
           IN  /\ call.out.status = fresh.status
               /\ call.out.status = "decomposed" =>
                      (call.out.dates = fresh.dates /\ call.out.series = fresh.series)
    /\ call.op = "calculate_risk_metrics" => call.out = LoadedRiskMetrics

\* C9: the table passed to calculate_risk_metrics is after the call what it
\* was before: same columns, same values, no risk column.
C9_RiskMetricsLeavesInputAlone ==
    call.op = "calculate_risk_metrics" => call.held = call.arg

\* mean of the rendement column over the yield records of parcel p
ParcelMeanYield(p) ==
    LET OfParcel(r) == r.parcelle_id = p
    IN  SeriesMean(Column(Filter(yield_history, OfParcel), "rendement"))

\* the largest ParcelMeanYield among the parcels of table t, NaN without any
MaxParcelMeanYield(t) ==
    LET means == {ParcelMeanYield(r.parcelle_id) : r \in Rows(t)} \ {NaN}
    IN  IF means = {} THEN NaN
        ELSE CHOOSE m \in means : \A k \in means : ~RLess(m, k)

\* the claimed score from its operands, as the pair of the hydric-and-vegetation
\* part and the yield part
ClaimedRiskGlobal(rh, ndvi, rm, m) ==
    IF rh = NaN \/ ndvi = NaN \/ rm = NaN \/ m = NaN THEN NaN
    ELSE LET bound == RAdd(m, R(1, 1000000))
             ratio == R(rm[1] * bound[2], rm[2] * bound[1])
         IN  <<RAdd(RMul(R(5, 10), rh), RMul(R(3, 10), RSub(Num(1), ndvi))),
               RMul(R(2, 10), RSub(Num(1), ratio))>>

\* C10: on every scored row, risque_global is 0.5*risque_hydrique +
\* 0.3*(1 - ndvi) + 0.2*(1 - rendement_moyen/(M + 1e-6)), rendement_moyen
\* being the mean rendement of the yield records of the row's parcel (the same
\* on all rows of the parcel) and M the largest such mean among the parcels of
\* the scored table; a missing operand gives a missing score.
C10_RiskGlobalFormula ==
    call.op = "calculate_risk_metrics" =>
        \A i \in 1..Len(call.out.rows) :
            LET scored == call.out.rows[i]
                row == call.held.rows[i]
            IN  /\ row.rendement_moyen = ParcelMeanYield(row.parcelle_id)
                /\ \A j \in 1..Len(call.held.rows) :
                       call.held.rows[j].parcelle_id = row.parcelle_id =>
                           call.held.rows[j].rendement_moyen = row.rendement_moyen
                /\ scored.risque_global =
                       ClaimedRiskGlobal(scored.risque_hydrique, row.ndvi,
                                         ParcelMeanYield(row.parcelle_id),
                                         MaxParcelMeanYield(call.held))

\* two parcels with different mean yields were scored, the scores defined
C10_Witness ==
    /\ call.op = "calculate_risk_metrics"
    /\ \E i, j \in 1..Len(call.out.rows) :
           /\ call.held.rows[i].parcelle_id # call.held.rows[j].parcelle_id
           /\ call.held.rows[i].rendement_moyen # NaN
           /\ call.held.rows[j].rendement_moyen # NaN
           /\ call.held.rows[i].rendement_moyen # call.held.rows[j].rendement_moyen
           /\ call.out.rows[i].risque_global # NaN
           /\ call.out.rows[j].risque_global # NaN


\* C11: every scored row with stress_hydrique >= 0 has a risque_hydrique that
\* is defined (not NaN) and >= 0, whatever capacite_retention_eau the row
\* carries: a positive value, zero, or none because it was not measured
C11_RisqueHydriqueDefined ==
    call.op = "calculate_risk_metrics" =>
        \A i \in 1..Len(call.arg.rows) :
            LET row == call.arg.rows[i]
                scored == call.out.rows[i]
            IN  (row.stress_hydrique # NaN /\ ~RLess(row.stress_hydrique, Num(0))) =>
                    /\ scored.risque_hydrique # NaN
                    /\ ~RLess(scored.risque_hydrique, Num(0))

\* number of yield records of parcel p
RecordsOf(p) ==
    Cardinality({i \in 1..Len(yield_history.rows) : yield_history.rows[i].parcelle_id = p})

\* C12: a call of analyze_yield_patterns(p) for a parcel with 0, 1 or 2 yield
\* records returns None, raises nothing and leaves the yield table as it was
C12_FewRecordsGiveNone ==
    [][(/\ call'.op = "analyze_yield_patterns"
        /\ RecordsOf(call'.parcelle_id) < 3) =>
            /\ call'.out.status = "None"
            /\ yield_history' = yield_history]_vars

C12_Witness ==
    /\ call.op = "analyze_yield_patterns"
    /\ RecordsOf(call.parcelle_id) = 2
    /\ call.out.status = "None"

\* the imputation as claimed: a known value is kept, a gap between two known
\* values lies on the straight line between them, a gap before the first or
\* after the last known value takes the mean of the series
ClaimedImputation(raw) ==
    LET n == Len(raw)
        Known(i) == raw[i] # NaN
        Before(i) == {j \in 1..(i - 1) : Known(j)}
        After(i) == {j \in (i + 1)..n : Known(j)}
        Last(S) == CHOOSE j \in S : \A k \in S : k <= j
        First(S) == CHOOSE j \in S : \A k \in S : j <= k
        Inner(i) == Before(i) # {} /\ After(i) # {}
        OnLine(i) ==
            LET a == Last(Before(i))
                b == First(After(i))
            IN  RAdd(raw[a], RMul(R(i - a, b - a), RSub(raw[b], raw[a])))
        inner == [i \in 1..n |-> IF Known(i) THEN raw[i]
                                 ELSE IF Inner(i) THEN OnLine(i) ELSE NaN]
    IN  [i \in 1..n |-> IF inner[i] # NaN THEN inner[i] ELSE SeriesMean(inner)]

\* C13: in analyze_yield_patterns a missing rendement between two known
\* values is interpolated linearly between them, one before the first or
\* after the last known value is filled with the mean of the series, and no
\* value is missing afterwards (for a series with at least one known value)
C13_BoundaryGapsTakeTheMean ==
    (/\ call.op = "analyze_yield_patterns"
     /\ call.out.status # "None"
     /\ \E i \in 1..Len(call.out.history.rows) : call.out.history.rows[i].rendement # NaN) =>
        /\ call.out.series = ClaimedImputation(Column(call.out.history, "rendement"))
        /\ \A i \in 1..Len(call.out.series) : call.out.series[i] # NaN

\* |d| > std(series), from the integer values of the series: with n values of
\* sum S and sum of squares Q, std^2 = (n * Q - S * S) / n^2
ClaimedJump(x, i) ==
    LET n == Len(x)
        v == [k \in 1..n |-> x[k][1]]
        S == SumSeq([k \in 1..n |-> Num(v[k])])[1]
        Q == SumSeq([k \in 1..n |-> Num(v[k] * v[k])])[1]
        d == v[i + 1] - v[i]
    IN  d * d * n * n > n * Q - S * S

\* C14: _detect_yield_breakpoints returns, in increasing order, exactly the
\* indices i in 1..n-1 with |series[i] - series[i-1]| > std(series), the
\* index of the last adjacent pair included
C14_EveryAdjacentPairExamined ==
    call.op = "_detect_yield_breakpoints" =>
        LET n == Len(call.yield_series)
            out == call.out
        IN  /\ \A k \in 1..(Len(out) - 1) : out[k] < out[k + 1]
            /\ {out[k] : k \in 1..Len(out)} =
                   {i \in 1..(n - 1) : ClaimedJump(call.yield_series, i)}

SpikeSeries == <<Num(5), Num(5), Num(5), Num(9), Num(5), Num(5)>>

\* C15 as stated: on [5,5,5,9,5,5] the detector flags index 3 and no other
C15_SpikeFlagsIndex3Only ==
    (call.op = "_detect_yield_breakpoints" /\ call.yield_series = SpikeSeries) =>
        call.out = <<3>>

\* C15 as amended: on [5,5,5,9,5,5] the detector flags indices 3 and 4, the
\* rise to 9 and the fall back to 5, and no other index
C15_SpikeFlagsRiseAndFall ==
    (call.op = "_detect_yield_breakpoints" /\ call.yield_series = SpikeSeries) =>
        call.out = <<3, 4>>

C15_Witness ==
    /\ call.op = "_detect_yield_breakpoints"
    /\ call.yield_series = SpikeSeries
    /\ Len(call.out) = 2

\* C16: for the linear 13-point series [1, ..., 13] the yield-pattern analysis
\* (period 12) completes with a slope of 1, and the stability index of the
\* series is positive
C16_LinearSeriesHasSlopeOne ==
    (/\ call.op = "analyze_yield_patterns"
     /\ Column(call.out.history, "rendement") = LinearSeries) =>
        /\ call.out.status = "decomposed"
        /\ call.out.slope = Num(1)
        /\ RLess(Num(0), calculate_stability_index(LinearSeries).stability_index)

\* the analysis of the 24-point linear series completes, with slope 1
LongLinearSeriesDecomposed ==
    /\ call.op = "analyze_yield_patterns"
    /\ call.out.status = "decomposed"
    /\ call.out.series = LongLinearSeries
    /\ call.out.slope = Num(1)

IsConstant(x) == \A i, j \in 1..Len(x) : x[i] = x[j]

\* C17: for a constant yield series of length >= 2 the stability index is
\* computed without a division error: it is finite, the fitted slope is 0 and
\* the index is 0
C17_ConstantSeriesIndexIsZero ==
    (/\ call.op = "_calculate_stability_index"
     /\ Len(call.yield_series) >= 2
     /\ IsConstant(call.yield_series)) =>
        /\ call.out.status = "returned"
        /\ call.out.trend = Num(0)
        /\ call.out.stability_index # NaN
        /\ call.out.stability_index = Num(0)

C17_Witness ==
    /\ call.op = "_calculate_stability_index"
    /\ Len(call.yield_series) >= 2
    /\ IsConstant(call.yield_series)
    /\ call.out.status = "returned"
    /\ Std(call.yield_series) = Num(0)

\* parcel p has an observation the fit can use: a monitoring row on a date
\* that has a weather record and a yield record of p with a final or an
\* estimated value
HasUsableObservation(p) ==
    \E m \in Rows(monitoring_data), w \in Rows(weather_data), h \in Rows(yield_history) :
        /\ m.parcelle_id = p
        /\ w.date = m.date
        /\ h.parcelle_id = p
        /\ h.date = m.date
        /\ (h.rendement_final # NaN \/ h.rendement_estime # NaN)

\* C18: analyze_yield_factors raises its error and fits no model whenever the
\* parcel leaves an empty feature matrix or target: no monitoring row, no
\* weather record on its dates, or no yield value on any of its dates
C18_EmptyFeaturesRaise ==
    (call.op = "analyze_yield_factors" /\ ~HasUsableObservation(call.parcelle_id)) =>
        /\ call.out.status = "ValueError"
        /\ call.out.feature_importance = <<>>

\* monitored on a date with weather, but without any yield value
C18_Witness ==
    /\ call.op = "analyze_yield_factors"
    /\ ~HasUsableObservation(call.parcelle_id)
    /\ \E m \in Rows(monitoring_data), w \in Rows(weather_data) :
           m.parcelle_id = call.parcelle_id /\ w.date = m.date
    /\ call.out.status = "ValueError"

\* C19: the sequence analyze_yield_factors returns is non-increasing in
\* importance and has exactly one entry per column of the feature matrix
C19_ImportancesSortedDescending ==
    (call.op = "analyze_yield_factors" /\ call.out.status = "fitted") =>
        LET fi == call.out.feature_importance
        IN  /\ \A k \in 1..(Len(fi) - 1) : ~RLess(fi[k][2], fi[k + 1][2])
            /\ Len(fi) = Cardinality(call.out.X.cols)
            /\ {fi[k][1] : k \in 1..Len(fi)} = call.out.X.cols

\* a fit whose importances differ from one column to another
C19_Witness ==
    /\ call.op = "analyze_yield_factors"
    /\ call.out.status = "fitted"
    /\ \E j, k \in 1..Len(call.out.feature_importance) :
           call.out.feature_importance[j][2] # call.out.feature_importance[k][2]

\* |r| < 0.2 for the coefficient r = n/d, d > 0
ClaimedWeak(r) == r # NaN /\ 10 * Abs(r[1]) < 2 * r[2]

\* C20: _identify_limiting_factors flags (keeps) a coefficient exactly when
\* its absolute value is below 0.2; a coefficient with |r| >= 0.2, positive or
\* negative, is not flagged
C20_FlaggedIffWeak ==
    call.op = "_identify_limiting_factors" =>
        \A f \in DOMAIN call.correlations :
            (call.out[f] # NaN) <=> ClaimedWeak(call.correlations[f])

\* C21: the series analyze_yield_patterns imputes and decomposes is in
\* non-decreasing date order, whatever the order of the records in the table
C21_SeriesInDateOrder ==
    (call.op = "analyze_yield_patterns" /\ call.out.status # "None") =>
        \A i \in 1..(Len(call.out.dates) - 1) :
            ~RLess(call.out.dates[i + 1], call.out.dates[i])

\* the forward-fill as claimed: a missing field takes the last value present
\* in an earlier row of the same parcel, and stays missing when there is none
ClaimedFfill(t) ==
    LET Earlier(i, c) ==
            {j \in 1..(i - 1) : /\ t.rows[j].parcelle_id = t.rows[i].parcelle_id
                                /\ ~IsNull(c, t.rows[j][c])}
        Latest(S) == CHOOSE j \in S : \A k \in S : k <= j
        Cell(i, c) ==
            IF ~IsNull(c, t.rows[i][c]) THEN t.rows[i][c]
            ELSE IF Earlier(i, c) = {} THEN NaN
            ELSE t.rows[Latest(Earlier(i, c))][c]
    IN  Table(t.cols, [i \in 1..Len(t.rows) |-> [c \in t.cols |-> Cell(i, c)]])

\* C22: the table prepare_features returns is the joined table with every
\* missing field filled from the most recent earlier row of the same parcel
\* only: nothing comes from another parcel's row, and a parcel's first row
\* with a missing field keeps it missing
C22_FfillStaysWithinParcel ==
    call.op = "prepare_features" =>
        call.held =
            ClaimedFfill(Merge(MergeAsofIndex(monitoring_data, weather_data),
                               soil_data, {"parcelle_id"}, "left"))

\* C23: the feature matrix analyze_yield_factors fits on holds neither the
\* target rendement, nor rendement_final or rendement_estime it is computed
\* from, nor the identifiers parcelle_id and date
C23_NoTargetAmongFeatures ==
    (call.op = "analyze_yield_factors" /\ call.out.status = "fitted") =>
        /\ call.out.X.cols \cap
               {"rendement", "rendement_final", "rendement_estime", "parcelle_id", "date"} = {}
        /\ \A k \in 1..Len(call.out.feature_importance) :
               call.out.feature_importance[k][1] \notin
                   {"rendement", "rendement_final", "rendement_estime", "parcelle_id", "date"}

====
